---- MODULE Spec2Model ----
(***************************************************************************)
(* The two workflow scripts of workflows/workflows-demo.ipynb (simple.py   *)
(* and workflow.py) run as a master run against the run platform.  A       *)
(* script is a straight-line Python program: it is modelled as the         *)
(* sequence of its statements, executed by one interpreter, and the        *)
(* platform as a registry of runs whose statuses advance on their own.     *)
(***************************************************************************)
EXTENDS Integers, Sequences, FiniteSets, TLC

VARIABLES
    script,   \* which workflow script the master run executes
    master,   \* the id of the master run; worker runs get the ids after it
    pc,       \* index of the next statement of the script
    handles,  \* the script's run objects: variable name -> [id, status]
    runs,     \* the platform's registry of worker runs, in submission order
    err       \* the exception that ended the script, if any

vars == <<script, master, pc, handles, runs, err>>

\* Largest id the master run may have; worker ids follow it.
MaxMaster == 2

----------------------------------------------------------------------------
(* Run statuses *)

\* The states a run passes through before its final state, in order.
LIFECYCLE ==
    <<"machine_requested", "building", "mounting", "running", "saving", "pushing">>

COMPLETE == "complete"

\* The failing final states.
FAILING == {"failed", "stopped", "interrupted"}

\* client.runs.FINAL: the four final states.
FINAL == {COMPLETE} \cup FAILING

\* Position of a status in the lifecycle; the final states come last.
Rank(s) ==
    IF s \in FINAL THEN Len(LIFECYCLE) + 1
    ELSE CHOOSE i \in 1..Len(LIFECYCLE) : LIFECYCLE[i] = s

\* A platform that starts a run again after its final state.
NextStatusesRestart(s) ==
    IF s \in FINAL THEN {LIFECYCLE[1]}
    ELSE FAILING \cup (IF s = LIFECYCLE[Len(LIFECYCLE)]
                       THEN {COMPLETE}
                       ELSE {LIFECYCLE[Rank(s) + 1]})

\* The statuses a run in status s can be assigned next.
NextStatuses(s) ==
    IF s \in FINAL THEN {}
    ELSE FAILING \cup (IF Rank(s) = Len(LIFECYCLE)
                       THEN {COMPLETE}
                       ELSE {LIFECYCLE[Rank(s) + 1]})

----------------------------------------------------------------------------
(* The scripts *)

\* A statement: op is what it does, var the run variable it assigns or acts
\* on, uses the run variables its expressions read, step the index in the
\* chain of the worker run it belongs to.
Stmt(o, v, u, k) == [op |-> o, var |-> v, uses |-> u, step |-> k]

\* simple.py with both runs submitted before the first is awaited.
SimplePyEager ==
    << Stmt("client",  "",   {},     0),
       Stmt("new",     "r1", {},     0),
       Stmt("new",     "r2", {"r1"}, 1),
       Stmt("wait",    "r1", {},     0),
       Stmt("refresh", "r1", {},     0),
       Stmt("gate",    "r1", {"r"},  0),
       Stmt("wait",    "r2", {},     1),
       Stmt("refresh", "r2", {},     1),
       Stmt("gate",    "r2", {"r"},  1),
       Stmt("finish",  "",   {},     1) >>

SimplePy ==
    << Stmt("client",  "",   {},     0),
       Stmt("new",     "r1", {},     0),
       Stmt("wait",    "r1", {},     0),
       Stmt("refresh", "r1", {},     0),
       Stmt("gate",    "r1", {"r"},  0),
       Stmt("new",     "r2", {"r1"}, 1),
       Stmt("wait",    "r2", {},     1),
       Stmt("refresh", "r2", {},     1),
       Stmt("gate",    "r2", {"r"},  1),
       Stmt("finish",  "",   {},     1) >>

WorkflowPy ==
    << Stmt("client",  "",   {},     0),
       Stmt("new",     "r1", {},     0),
       Stmt("print",   "r1", {"r1"}, 0),
       Stmt("wait",    "r1", {},     0),
       Stmt("refresh", "r1", {},     0),
       Stmt("gate",    "r1", {"r1"}, 0),
       Stmt("new",     "r2", {"r1"}, 1),
       Stmt("print",   "r2", {"r2"}, 1),
       Stmt("wait",    "r2", {},     1),
       Stmt("refresh", "r2", {},     1),
       Stmt("gate",    "r2", {"r2"}, 1),
       Stmt("new",     "r3", {"r3"}, 2),
       Stmt("print",   "r3", {"r3"}, 2),
       Stmt("wait",    "r3", {},     2),
       Stmt("refresh", "r3", {},     2),
       Stmt("gate",    "r3", {"r3"}, 2) >>

Scripts == {"simple.py", "workflow.py"}

Program(s) == IF s = "simple.py" THEN SimplePy ELSE WorkflowPy

\* The run variables a script may name.
RunVars == {"r", "r1", "r2", "r3"}

\* The number of steps of a script's chain: its worker runs.
ChainLength(s) ==
    Cardinality({i \in 1..Len(Program(s)) : Program(s)[i].op = "new"})

----------------------------------------------------------------------------
(* The interpreter's state *)

Unbound == [id |-> 0, status |-> "unbound"]

NoErr == [kind |-> "none", at |-> 0, run |-> 0]

Bound(v) == handles[v] # Unbound

AtEnd == pc = Len(Program(script)) + 1

\* The script is running while its next statement is one of the program; an
\* uncaught exception leaves the program (pc = 0).
Running == pc \in 1..Len(Program(script))

Cur == Program(script)[pc]

\* Python raises NameError when a statement reads a name that is not bound.
NameError == [kind |-> "NameError", at |-> pc, run |-> 0]

\* The platform rejects the request of client.runs.new: the call raises.
SubmissionError == [kind |-> "SubmissionError", at |-> pc, run |-> 0]

\* An exception nothing catches ends the script at the statement raising it.
Raise(e) == err' = e /\ pc' = 0

\* Index in the registry of the run with id i.
Idx(i) == i - master

Init ==
    /\ script \in Scripts
    /\ master \in 1..MaxMaster
    /\ pc = 1
    /\ handles = [v \in RunVars |-> Unbound]
    /\ runs = <<>>
    /\ err = NoErr

----------------------------------------------------------------------------
(* The statements *)

\* The names a statement reads but that are not bound.
UnboundUses(st) == {v \in st.uses : ~Bound(v)}

\* The id the platform gives the next worker run.
NewId == master + Len(runs) + 1

\* attached_resources of a new run: the runs whose files it mounts.
AttachedTo(st) == {handles[v].id : v \in st.uses}

\* A wait that returns whatever the status is.
WaitReleasedAtOnce(s) == TRUE

\* wait_status(*client.runs.FINAL) returns once the API reports status s.
WaitReleased(s) == s \in FINAL

\* A refresh that is left out: the run object keeps the status it had.
NotRefreshed(h) == h

\* refresh(): one round trip that copies the run's status into the object.
Refreshed(h) == [h EXCEPT !.status = runs[Idx(h.id)].status]

\* A gate that stops the script on FAILED alone.
GatePassesUnlessFailed(h) == h.status # "failed"

\* A gate that only asks for a final status.
GatePassesFinal(h) == h.status \in FINAL

\* The gate: the script goes on only when the run object says COMPLETE.
GatePasses(h) == h.status = COMPLETE

\* import spell.client; client = spell.client.from_environment()
Client ==
    /\ Running /\ Cur.op = "client"
    /\ pc' = pc + 1
    /\ UNCHANGED <<script, master, handles, runs, err>>

\* The platform takes the request: the run is registered and the call
\* returns its run object, which the script assigns.
Submitted ==
    /\ runs' = Append(runs, [status   |-> LIFECYCLE[1],
                             attached |-> AttachedTo(Cur),
                             step     |-> Cur.step,
                             produced |-> FALSE])
    /\ handles' = [handles EXCEPT ![Cur.var] =
                      [id |-> NewId, status |-> LIFECYCLE[1]]]
    /\ pc' = pc + 1
    /\ err' = err

\* A submission in a loop that notes a rejection and asks again.
NewRunRetries ==
    /\ Running /\ Cur.op = "new"
    /\ UnboundUses(Cur) = {}
    /\ \/ Submitted
       \/ /\ err' = SubmissionError
          /\ UNCHANGED <<pc, handles, runs>>
    /\ UNCHANGED <<script, master>>

\* rN = client.runs.new(command=..., attached_resources={...rM.id...})
\* The arguments are evaluated before the call is made; the platform takes
\* the request or rejects it, and nothing catches the rejection.
NewRun ==
    /\ Running /\ Cur.op = "new"
    /\ IF UnboundUses(Cur) # {}
       THEN /\ Raise(NameError)
            /\ UNCHANGED <<handles, runs>>
       ELSE \/ Submitted
            \/ /\ Raise(SubmissionError)
               /\ UNCHANGED <<handles, runs>>
    /\ UNCHANGED <<script, master>>

\* print("waiting for run {} to complete".format(rN.id))
PrintWaiting ==
    /\ Running /\ Cur.op = "print"
    /\ IF UnboundUses(Cur) # {}
       THEN Raise(NameError)
       ELSE err' = err /\ pc' = pc + 1
    /\ UNCHANGED <<script, master, handles, runs>>

\* rN.wait_status(*client.runs.FINAL): blocks; the run object is not updated.
WaitStatus ==
    /\ Running /\ Cur.op = "wait"
    /\ Bound(Cur.var)
    /\ WaitReleased(runs[Idx(handles[Cur.var].id)].status)
    /\ pc' = pc + 1
    /\ UNCHANGED <<script, master, handles, runs, err>>

\* The master run is torn down while wait_status blocks.
TornDown == [kind |-> "Teardown", at |-> pc, run |-> handles[Cur.var].id]

\* A script that stops the run it waits for when it is torn down.
TeardownCancels ==
    /\ Running /\ Cur.op = "wait"
    /\ Bound(Cur.var)
    /\ ~WaitReleased(runs[Idx(handles[Cur.var].id)].status)
    /\ Raise(TornDown)
    /\ runs' = [runs EXCEPT ![Idx(handles[Cur.var].id)].status = "stopped"]
    /\ UNCHANGED <<script, master, handles>>

\* The script is torn down in rN.wait_status(...), which has no handler
\* around it: no statement of the script runs any more, and none acts on
\* the run it was waiting for.
Teardown ==
    /\ Running /\ Cur.op = "wait"
    /\ Bound(Cur.var)
    /\ ~WaitReleased(runs[Idx(handles[Cur.var].id)].status)
    /\ Raise(TornDown)
    /\ UNCHANGED <<script, master, handles, runs>>

\* rN.refresh()
Refresh ==
    /\ Running /\ Cur.op = "refresh"
    /\ Bound(Cur.var)
    /\ handles' = [handles EXCEPT ![Cur.var] = Refreshed(handles[Cur.var])]
    /\ pc' = pc + 1
    /\ UNCHANGED <<script, master, runs, err>>

\* A gate that reports the failure and goes on to the next statement.
GateLogsFailure ==
    /\ Running /\ Cur.op = "gate"
    /\ Bound(Cur.var)
    /\ err' = IF GatePasses(handles[Cur.var]) THEN err
              ELSE [kind |-> "OSError", at |-> pc, run |-> handles[Cur.var].id]
    /\ pc' = pc + 1
    /\ UNCHANGED <<script, master, handles, runs>>

\* A gate that removes the outputs of the earlier steps when it aborts.
GateRollsBack ==
    /\ Running /\ Cur.op = "gate"
    /\ Bound(Cur.var)
    /\ IF GatePasses(handles[Cur.var])
       THEN err' = err /\ pc' = pc + 1 /\ runs' = runs
       ELSE /\ Raise([kind |-> "OSError", at |-> pc,
                      run |-> handles[Cur.var].id])
            /\ runs' = [j \in 1..Len(runs) |->
                           IF j <= Cur.step
                           THEN [runs[j] EXCEPT !.produced = FALSE]
                           ELSE runs[j]]
    /\ UNCHANGED <<script, master, handles>>

\* A gate that submits the step again when its run did not complete.
GateRetries ==
    /\ Running /\ Cur.op = "gate"
    /\ Bound(Cur.var)
    /\ pc' = IF GatePasses(handles[Cur.var]) THEN pc + 1
             ELSE CHOOSE i \in 1..pc :
                      /\ Program(script)[i].op = "new"
                      /\ Program(script)[i].step = Cur.step
    /\ UNCHANGED <<script, master, handles, runs, err>>

\* if rN.status != client.runs.COMPLETE: raise OSError(f"failed at run {rM.id}")
\* The message is evaluated only when the error is raised.
Gate ==
    /\ Running /\ Cur.op = "gate"
    /\ Bound(Cur.var)
    /\ IF GatePasses(handles[Cur.var])
       THEN err' = err /\ pc' = pc + 1
       ELSE IF UnboundUses(Cur) # {}
            THEN Raise(NameError)
            ELSE Raise([kind |-> "OSError", at |-> pc,
                        run |-> handles[CHOOSE v \in Cur.uses : TRUE].id])
    /\ UNCHANGED <<script, master, handles, runs>>

\* print("Finished workflow!")
Finish ==
    /\ Running /\ Cur.op = "finish"
    /\ pc' = pc + 1
    /\ UNCHANGED <<script, master, handles, runs, err>>

\* The files run k mounts are all there: every run it attaches has written
\* the file the attachment names.
InputsPresent(k) == \A i \in runs[k].attached : runs[Idx(i)].produced

\* The statuses run k can be assigned next: a command whose mounted file is
\* missing does not run through, so the run cannot end COMPLETE.
Reachable(k) ==
    NextStatuses(runs[k].status)
        \ (IF InputsPresent(k) THEN {} ELSE {COMPLETE})

\* The platform moves a run on through its lifecycle.  A run that ends
\* COMPLETE has pushed its outputs; whether the file the next step mounts is
\* among them is up to its command.
Advance ==
    \E k \in 1..Len(runs) :
        \E s \in Reachable(k) :
            \E out \in (IF s = COMPLETE THEN BOOLEAN ELSE {FALSE}) :
                /\ runs' = [runs EXCEPT ![k].status = s, ![k].produced = out]
                /\ UNCHANGED <<script, master, pc, handles, err>>

Next ==
    \/ Client
    \/ NewRun
    \/ PrintWaiting
    \/ WaitStatus
    \/ Teardown
    \/ Refresh
    \/ Gate
    \/ Finish
    \/ Advance

Spec == Init /\ [][Next]_vars

\* The interpreter goes on to the next statement whenever it can, and every
\* run the platform holds goes on to a final state.  A teardown may happen or
\* not.
FairSpec ==
    /\ Spec
    /\ WF_vars(Client) /\ WF_vars(NewRun) /\ WF_vars(PrintWaiting)
    /\ WF_vars(WaitStatus) /\ WF_vars(Refresh) /\ WF_vars(Gate)
    /\ WF_vars(Finish)
    /\ WF_vars(Advance)

----------------------------------------------------------------------------
(* The orchestrator state the script is in *)

OState(t, k, s) == [tag |-> t, step |-> k, status |-> s]

\* Idle before the first statement, Running(i) while step i is being
\* submitted and awaited, Completed at the end of the script, Aborted(k, s)
\* when the gate of step k raised on status s, Crashed on any other error.
OrchState ==
    IF err # NoErr
    THEN LET st == Program(script)[err.at] IN
         IF st.op = "gate"
         THEN OState("Aborted", st.step, handles[st.var].status)
         ELSE OState("Crashed", st.step, "")
    ELSE IF pc = 1 THEN OState("Idle", 0, "")
    ELSE IF AtEnd THEN OState("Completed", 0, "")
    ELSE OState("Running", Cur.step, "")

\* The script has ended: it ran to its end, or an exception ended it.
Ended == AtEnd \/ err # NoErr

\* The script ended by its own statements: it ran to its end or one of them
\* raised; the platform did not reject a submission.
EndedByScript == AtEnd \/ err.kind \in {"OSError", "NameError"}

\* The id of the worker run of chain step k.
StepId(k) == master + k + 1

----------------------------------------------------------------------------
(* The claims *)

\* C1: when every job the script submitted is complete, the script ends
\* Completed after exactly N submit/await cycles in chain order, for simple.py
\* (N = 2) and for workflow.py (N = 3).  workflow.py breaks it: the third
\* submission reads r3.id before r3 is bound.
C1_AllCompleteReachesCompleted ==
    (EndedByScript /\ \A k \in 1..Len(runs) : runs[k].status = COMPLETE)
        => /\ OrchState.tag = "Completed"
           /\ Len(runs) = ChainLength(script)
           /\ \A k \in 1..Len(runs) : runs[k].step = k - 1

\* C2: when the job of step k has a final status other than complete, no
\* later step has been submitted, and once the script has ended the
\* orchestrator is in Aborted(k, status).
C2_AbortOnFailure ==
    \A k \in 1..Len(runs) :
        runs[k].status \in FAILING
            => /\ Len(runs) = k
               /\ EndedByScript
                      => OrchState = OState("Aborted", k - 1, runs[k].status)

C2_Witness ==
    /\ Len(runs) = 2
    /\ runs[2].status = "stopped"
    /\ OrchState = OState("Aborted", 1, "stopped")

\* C3: the error raised when a step's job reached a failing final state is
\* the step-failure OSError naming the run that failed.  simple.py breaks
\* it: its message reads r.id, and r is never bound.
C3_StepFailureError ==
    OrchState.tag = "Aborted"
        => /\ err.kind = "OSError"
           /\ err.run = StepId(OrchState.step)
           /\ runs[Idx(err.run)].status = OrchState.status

\* C4: every submitted job attaches only runs that are in the registry, were
\* submitted before it and are complete.
C4_InputsComplete ==
    \A k \in 1..Len(runs) :
        \A i \in runs[k].attached :
            /\ Idx(i) \in 1..(k - 1)
            /\ runs[Idx(i)].status = COMPLETE

C4_Witness ==
    /\ Len(runs) = 2
    /\ runs[2].attached = {StepId(0)}
    /\ runs[2].status = LIFECYCLE[1]

\* C5: whenever the script is about to submit step i+1, the resource it
\* attaches resolves to the run of step i, which is submitted and complete.
\* workflow.py breaks it for r3: the attachment names r3 itself.
C5_AttachmentIsPriorJob ==
    (Running /\ Cur.op = "new" /\ Cur.step >= 1)
        => /\ UnboundUses(Cur) = {}
           /\ AttachedTo(Cur) = {StepId(Cur.step - 1)}
           /\ runs[Cur.step].status = COMPLETE

\* C6: whenever the script evaluates the gate, the status of the run object
\* is a final one, and it is the status the registry holds.
C6_GateSeesFinal ==
    (Running /\ Cur.op = "gate")
        => /\ handles[Cur.var].status \in FINAL
           /\ handles[Cur.var].status = runs[Idx(handles[Cur.var].id)].status

C6_Witness ==
    /\ Running /\ Cur.op = "gate" /\ Cur.step = 1
    /\ handles[Cur.var].status = "interrupted"

C9_TerminalAbsorbing ==
    [][OrchState.tag \in {"Completed", "Aborted"} => UNCHANGED vars]_vars

C9_Witness ==
    /\ OrchState = OState("Aborted", 0, "failed")
    /\ Len(runs) = 1

\* C10: at most one run is in a non-final status, and every run but the
\* last submitted one is final.
C10_Sequential ==
    /\ Cardinality({k \in 1..Len(runs) : runs[k].status \notin FINAL}) <= 1
    /\ \A k \in 1..(Len(runs) - 1) : runs[k].status \in FINAL

C10_Witness ==
    /\ Len(runs) = 2
    /\ runs[2].status = "running"
    /\ Running /\ Cur.op = "wait"

\* C11: when the platform rejects the submission of step i, the script ends
\* with the SubmissionError at that call: the call is not made again, the
\* variable of step i holds no run object, and only the steps before i are
\* in the registry.
C11_RejectionSurfaced ==
    err.kind = "SubmissionError"
        => LET st == Program(script)[err.at] IN
           /\ pc = 0
           /\ st.op = "new"
           /\ handles[st.var] = Unbound
           /\ Len(runs) = st.step
           /\ \A k \in 1..Len(runs) : runs[k].step < st.step
           /\ ~ENABLED NewRun

C11_Witness ==
    /\ err.kind = "SubmissionError"
    /\ Program(script)[err.at].step = 1
    /\ Len(runs) = 1
    /\ handles["r2"] = Unbound

\* C12: the script does not look for the file a step should have written:
\* when step i ended complete without it, step i+1 is submitted all the
\* same, its run ends in a failing status, and the script ends
\* Aborted(i+1, status).  workflow.py breaks it after r2: r3 is never
\* submitted.
C12_MissingInputSurfacesDownstream ==
    \A k \in 1..Len(runs) :
        ( /\ EndedByScript
          /\ runs[k].status = COMPLETE /\ ~runs[k].produced
          /\ k < ChainLength(script) )
            => /\ Len(runs) = k + 1
               /\ runs[k + 1].status \in FAILING
               /\ OrchState = OState("Aborted", k, runs[k + 1].status)

\* C13: the step that aborts the chain at step k, and every step after it,
\* leaves the registry as it was: the runs of steps 0..k-1 are complete and
\* keep the outputs they had.
C13_NoRollback ==
    [][ OrchState'.tag = "Aborted"
          => /\ runs' = runs
             /\ \A j \in 1..OrchState'.step :
                   /\ runs'[j].status = COMPLETE
                   /\ runs'[j].produced = runs[j].produced
      ]_vars

C13_Witness ==
    /\ OrchState = OState("Aborted", 1, "failed")
    /\ runs[1].status = COMPLETE
    /\ runs[1].produced

\* C14: tearing the script down while it waits for the run of step i leaves
\* the registry as it is, that run included: the run is not cancelled, its
\* status is still one that is not final, and the platform can still assign
\* it each of the failing final statuses or move it on towards complete.
C14_TeardownLeavesJob ==
    [][ (err = NoErr /\ err'.kind = "Teardown")
            => /\ runs' = runs
               /\ runs'[Idx(err'.run)].status \notin FINAL
               /\ FAILING \subseteq NextStatuses(runs'[Idx(err'.run)].status)
               /\ NextStatuses(runs'[Idx(err'.run)].status) \ FAILING # {}
      ]_vars

C14_Witness ==
    /\ err.kind = "Teardown"
    /\ Program(script)[err.at].step = 1
    /\ runs[Idx(err.run)].status = COMPLETE

\* While the run the script waits for is not final, the orchestrator stays
\* in Running(i), unless it is torn down.
C15_StaysRunning ==
    [][ ( /\ Running /\ Cur.op = "wait"
          /\ runs[Idx(handles[Cur.var].id)].status \notin FINAL )
            => \/ OrchState' = OrchState
               \/ err'.kind = "Teardown" ]_vars

\* The script eventually ends Completed or Aborted, unless the platform
\* rejects a submission or the script is torn down.
C15_EventuallyEnds ==
    <>( \/ OrchState.tag \in {"Completed", "Aborted"}
        \/ err.kind \in {"SubmissionError", "Teardown"} )

\* C15: when every submitted run reaches a final state and no timeout is
\* given, the orchestrator eventually is Completed or Aborted, and while
\* the run of step i is not final it stays in Running(i).  workflow.py
\* breaks it: after r1 and r2 complete it ends in NameError, neither
\* Completed nor Aborted.
C15_Terminates == C15_EventuallyEnds /\ C15_StaysRunning

\* C16: the runs submitted are those of steps 0..i, one run each and in
\* chain order: no step is skipped or submitted twice, and there are never
\* more runs than the chain has steps.
C16_SubmittedPrefix ==
    /\ Len(runs) <= ChainLength(script)
    /\ \A k \in 1..Len(runs) : runs[k].step = k - 1
    /\ \A k \in 1..Len(runs) :
          \E v \in RunVars : handles[v].id = master + k

C16_Witness ==
    /\ script = "workflow.py"
    /\ Len(runs) = 2
    /\ runs[2].step = 1
    /\ runs[1].status = COMPLETE

\* C17: the orchestrator is Completed only when all N steps are submitted
\* and all N runs are complete, and Aborted(k, s) only when 0 <= k < N, the
\* runs of steps 0..k-1 are complete, and the run of step k is the last one
\* submitted and has the failing status s.
C17_FinalStateAgrees ==
    /\ OrchState.tag = "Completed"
          => /\ Len(runs) = ChainLength(script)
             /\ \A k \in 1..Len(runs) : runs[k].status = COMPLETE
    /\ OrchState.tag = "Aborted"
          => /\ OrchState.step \in 0..(ChainLength(script) - 1)
             /\ Len(runs) = OrchState.step + 1
             /\ \A k \in 1..OrchState.step : runs[k].status = COMPLETE
             /\ runs[OrchState.step + 1].status = OrchState.status
             /\ OrchState.status \in FAILING

C17_Witness ==
    /\ OrchState.tag = "Completed"
    /\ Len(runs) = 2
    /\ runs[2].status = COMPLETE

====
